---- MODULE Spec2Model ----
(***************************************************************************)
(* The WebAuthn relying-party routes of axlpaddev/webauthn-demo.            *)
(*                                                                         *)
(* Three generations of backend/server.js are in the repository:           *)
(*   "replace"  - src/backend/server.js: /generate-registration-options    *)
(*                installs a fresh user record on every call, and there is *)
(*                no /generate-authentication-options route;               *)
(*   "preserve" - src/unnamed/part_002: the record of a known email is     *)
(*                kept, only its currentChallenge is overwritten, and      *)
(*                /generate-authentication-options exists.                 *)
(*   "awaiting" - src/unnamed/part_004, lines 211-433: the record is       *)
(*                replaced as in "replace";                                *)
(*                /generate-authentication-options exists, tells an        *)
(*                unknown email from one without devices, and awaits       *)
(*                generateAuthenticationOptions between reading the record *)
(*                and writing its currentChallenge.  Its                   *)
(*                /generate-registration-options reads nothing before its  *)
(*                await, so it is one step, taken when the await resolves. *)
(* /verify-registration and /verify-authentication are the same in all.    *)
(*                                                                         *)
(* `users` is the Map email -> record.  Records are JavaScript objects, so  *)
(* a handler suspended at `await` keeps the object it read before the      *)
(* await even if the Map entry has been replaced since; the objects live   *)
(* in `heap`, named by the challenge they were created with.               *)
(*                                                                         *)
(* verifyRegistrationResponse / verifyAuthenticationResponse belong to     *)
(* @simplewebauthn/server; they are modelled by the checks they document   *)
(* (client-data type, challenge, origin, attestation, counter, signature). *)
(* isoUint8Array.toBuffer and Buffer.compare(...) === 0 are taken to copy  *)
(* and to compare the credential id bytes.                                 *)
(* generateRegistrationOptions / generateAuthenticationOptions are called  *)
(* without await and are taken to return the options, with a fresh         *)
(* challenge, at once.                                                     *)
(***************************************************************************)
EXTENDS Integers, Sequences, FiniteSets, TLC

\* ---------------------------------------------------------------- bounds
MaxChallenges == 2      \* begin_* requests are served while fewer challenges are issued
MaxInFlight == 2        \* verify-* handlers suspended at their await
MaxCounter == 2         \* signature counters 0..MaxCounter
MaxCalls == 3           \* verify-* requests on a trace
MaxCallsBeforeTimeout == 0  \* verify-* requests received before the clock last runs out

\* ---------------------------------------------------------------- inputs
Emails == {"a", "b"}
NoEmail == "none"                       \* req.body without an email
EmailInputs == Emails \cup {NoEmail}
CredIds == {"k1", "k2"}
Keys == {"pk1", "pk2"}
ExpectedOrigin == "https://axltest.dev"
Origins == {ExpectedOrigin, "https://evil.example"}
Variants == {"replace", "preserve", "awaiting"}

NoResponse == [none |-> TRUE]           \* req.body without a response
NoRecord == [none |-> TRUE]

VARIABLES
    variant,        \* which server file runs
    users,          \* Map: email -> record name, 0 when the key is absent
    heap,           \* record name -> {devices, currentChallenge} or NoRecord
    handlers,       \* the verify-* handlers suspended at their await, oldest first
    last,           \* the HTTP exchange of the latest step
    issued,         \* history: the challenges issued so far, <<[email, kind]>>
    expiredUpTo,    \* history: challenges 1..expiredUpTo are older than the timeout
    superseded,     \* history: challenges overwritten while they were pending
    accepted,       \* history: challenge -> number of verify-* calls it verified
    verifiedResp,   \* history: email -> verified registration responses since its last begin
    calls           \* history: the number of verify-* requests received

vars == <<variant, users, heap, handlers, last, issued, expiredUpTo, superseded,
          accepted, verifiedResp, calls>>

\* The begin_* requests received while fewer than MaxChallenges challenges are
\* issued are served; one that is suspended at its await issues its challenge
\* when the await resolves, whatever has been issued meanwhile.
Challenges == 1..(MaxChallenges + MaxInFlight)

\* the two authenticators callers hold: the credential id each one answers
\* with and the public key of its key pair
KeyOf(id) == IF id = "k1" THEN "pk1" ELSE "pk2"

\* The response object a caller posts (the fields the verifiers look at).
\* An attestation (webauthn.create) carries the authenticator's own public
\* key, an initial counter an assertion can still exceed, and an attestation
\* statement ("none" verifies).  An assertion (webauthn.get) names a
\* credential id, reports a counter and is signed with some key.
Attestations ==
    [id : CredIds, challenge : 1..MaxChallenges, ctype : {"webauthn.create"},
     origin : Origins, counter : 0..(MaxCounter - 1),
     att : {"none", "unverified", "malformed"}]

Assertions ==
    [id : CredIds, key : Keys, challenge : 1..MaxChallenges, ctype : {"webauthn.get"},
     origin : Origins, counter : 0..MaxCounter]

\* A response with a defect is otherwise the best its caller can make: from
\* the wrong origin, or with a bad attestation or signature, it has the
\* fields that pass every other check.
WellMade(r) ==
    IF r.ctype = "webauthn.create"
    THEN (r.origin # ExpectedOrigin \/ r.att # "none") =>
            /\ r.counter = 0
            /\ ~(r.origin # ExpectedOrigin /\ r.att # "none")
    ELSE (r.origin # ExpectedOrigin \/ r.key # KeyOf(r.id)) =>
            /\ r.counter = MaxCounter
            /\ ~(r.origin # ExpectedOrigin /\ r.key # KeyOf(r.id))

\* an attestation names its public key itself
WithKey(r) == [id |-> r.id, key |-> KeyOf(r.id), challenge |-> r.challenge,
               ctype |-> r.ctype, origin |-> r.origin, counter |-> r.counter,
               att |-> r.att]

WithAtt(r) == [id |-> r.id, key |-> r.key, challenge |-> r.challenge,
               ctype |-> r.ctype, origin |-> r.origin, counter |-> r.counter,
               att |-> "none"]

AttestationResponses == {WithKey(r) : r \in {x \in Attestations : WellMade(x)}}
AssertionResponses == {WithAtt(r) : r \in {x \in Assertions : WellMade(x)}}

\* ------------------------------------------------------ library verifiers
\* The client-data checks (type, challenge, origin) come first in both
\* verifiers, before their first internal await: a mismatch rejects the
\* promise at once ("throwNow") and the handler's catch runs before any other
\* request is dispatched.  Every later result arrives after a real await.

\* verifyRegistrationResponse({response, expectedChallenge, expectedOrigin, ...}):
\* throws on a client-data mismatch and on an attestation object it cannot
\* accept, answers verified: false when the attestation statement does not
\* verify, else verified with registrationInfo.
\* (mutation) the origin of the client data is not compared
VerifyRegistrationResponseAnyOrigin(response, expectedChallenge) ==
    IF \/ response.ctype # "webauthn.create"
       \/ response.challenge # expectedChallenge
    THEN [kind |-> "throwNow"]
    ELSE IF response.att = "malformed"
    THEN [kind |-> "throw"]
    ELSE IF response.att = "unverified"
    THEN [kind |-> "notVerified"]
    ELSE [kind |-> "verified",
          registrationInfo |-> [credentialID |-> response.id,
                                credentialPublicKey |-> response.key,
                                counter |-> response.counter]]

VerifyRegistrationResponse(response, expectedChallenge) ==
    IF \/ response.ctype # "webauthn.create"
       \/ response.challenge # expectedChallenge
       \/ response.origin # ExpectedOrigin
    THEN [kind |-> "throwNow"]
    ELSE IF response.att = "malformed"
    THEN [kind |-> "throw"]
    ELSE IF response.att = "unverified"
    THEN [kind |-> "notVerified"]
    ELSE [kind |-> "verified",
          registrationInfo |-> [credentialID |-> response.id,
                                credentialPublicKey |-> response.key,
                                counter |-> response.counter]]

\* verifyAuthenticationResponse({response, expectedChallenge, ..., authenticator}):
\* throws on a client-data mismatch and on a counter that did not advance
\* (unless both counters are 0); verified is the signature check against the
\* authenticator's public key.
VerifyAuthenticationResponse(response, expectedChallenge, authenticator) ==
    IF \/ response.ctype # "webauthn.get"
       \/ response.challenge # expectedChallenge
       \/ response.origin # ExpectedOrigin
    THEN [kind |-> "throwNow"]
    ELSE IF /\ (response.counter > 0 \/ authenticator.counter > 0)
            /\ response.counter <= authenticator.counter
    THEN [kind |-> "throw"]
    ELSE IF response.key # authenticator.credentialPublicKey
    THEN [kind |-> "notVerified"]
    ELSE [kind |-> "verified",
          authenticationInfo |-> [newCounter |-> response.counter]]

\* (mutation) one record, the latest, serves every email
UsersGetLatest(email) ==
    IF users[email] = 0 THEN NoRecord
    ELSE heap[CHOOSE r \in Challenges :
                 heap[r] # NoRecord /\ \A q \in Challenges : heap[q] # NoRecord => q <= r]

\* ------------------------------------------------------------- the store
\* const userId = uuidv4(): a fresh id at every call of the route; the model
\* names it by the number of the challenge the same call draws
UserId(challenge) == challenge

\* { id, email, devices: [], currentChallenge: options.challenge }
NewUser(challenge) ==
    [id |-> UserId(challenge), devices |-> <<>>, currentChallenge |-> challenge]

\* (mutation) users.get(email) ?? a fresh record
UsersGetOrNew(email) == IF users[email] = 0 THEN NewUser(0) ELSE heap[users[email]]

\* users.get(email)
UsersGet(email) == IF users[email] = 0 THEN NoRecord ELSE heap[users[email]]

\* (mutation) user.id = userId; user.currentChallenge = options.challenge
SetCurrentChallengeAndId(user, challenge) ==
    [user EXCEPT !.currentChallenge = challenge, !.id = UserId(challenge)]

\* (mutation) user.currentChallenge ||= options.challenge
SetCurrentChallengeIfNone(user, challenge) ==
    IF user.currentChallenge = 0 THEN [user EXCEPT !.currentChallenge = challenge] ELSE user

\* user.currentChallenge = options.challenge
SetCurrentChallenge(user, challenge) == [user EXCEPT !.currentChallenge = challenge]

\* (mutation) the delete is left out
KeepCurrentChallenge(user) == user

\* delete user.currentChallenge
DeleteCurrentChallenge(user) == [user EXCEPT !.currentChallenge = 0]

\* user.devices.push({credentialID, credentialPublicKey, counter})
PushDevice(user, info) ==
    [user EXCEPT !.devices = Append(@, [credentialID |-> info.credentialID,
                                        credentialPublicKey |-> info.credentialPublicKey,
                                        counter |-> info.counter])]

\* (mutation) the assignment to device.counter is left out
KeepDeviceCounter(user, device, newCounter) == user

\* device.counter = verification.authenticationInfo.newCounter
SetDeviceCounter(user, device, newCounter) ==
    [user EXCEPT !.devices[device].counter = newCounter]

\* (mutation) find(d => d.credentialID = response.id): the first device, if any
FindFirstDevice(devices, id) == IF Len(devices) = 0 THEN 0 ELSE 1

\* user.devices.find(d => Buffer.compare(d.credentialID, response.id) === 0):
\* the index of the first match, 0 when there is none
FindDevice(devices, id) ==
    LET hits == {i \in 1..Len(devices) : devices[i].credentialID = id}
    IN  IF hits = {} THEN 0 ELSE CHOOSE i \in hits : \A j \in hits : i <= j

\* user.devices.map(dev => ({ id: dev.credentialID, type: 'public-key' }))
DeviceIds(devices) == [i \in 1..Len(devices) |-> devices[i].credentialID]

\* Objects no Map entry and no suspended handler refers to are garbage.
Referenced(u, hs) ==
    {u[e] : e \in Emails} \cup {hs[s].user : s \in 1..Len(hs)}

Collect(hp, u, hs) ==
    [r \in Challenges |-> IF r \in Referenced(u, hs) THEN hp[r] ELSE NoRecord]

\* the credentials stored for an identity, and every stored credential
CredentialsOf(email) == IF users[email] = 0 THEN <<>> ELSE heap[users[email]].devices

PendingOf(email) == IF users[email] = 0 THEN 0 ELSE heap[users[email]].currentChallenge

\* the identity's record in the Map holds a credential with this id
Owns(email, id) ==
    \E i \in 1..Len(CredentialsOf(email)) : CredentialsOf(email)[i].credentialID = id

StoredIds ==
    UNION {{CredentialsOf(e)[i].credentialID : i \in 1..Len(CredentialsOf(e))} : e \in Emails}

\* res.status(status).json(...)
Reply(op, email, status, msg, notes) ==
    [op |-> op, email |-> email, status |-> status, msg |-> msg, notes |-> notes,
     challenge |-> 0, list |-> <<>>, userID |-> 0]

\* the same exchange, of a handler that had read expectedChallenge
Having(reply, expectedChallenge) == [reply EXCEPT !.challenge = expectedChallenge]

\* res.json(options): the credential ids listed in the options
\* (excludeCredentials or allowCredentials)
Listing(reply, ids) == [reply EXCEPT !.list = ids]

\* res.json(options): options.user.id, the userID passed to
\* generateRegistrationOptions
WithUserID(reply, userId) == [reply EXCEPT !.userID = userId]

\* (mutation) res.json({ error: message }): the status is left at 200
SendErrorWithoutStatus(op, email, status, msg, notes) == Reply(op, email, 200, msg, notes)

\* sendError(res, status, message)
SendError(op, email, status, msg, notes) == Reply(op, email, status, msg, notes)

\* ------------------------------------------------------------------ Init
Init ==
    /\ variant \in Variants
    /\ users = [e \in Emails |-> 0]
    /\ heap = [r \in Challenges |-> NoRecord]
    /\ handlers = <<>>
    /\ last = Reply("listen", NoEmail, 0, "", {})
    /\ issued = <<>>
    /\ expiredUpTo = 0
    /\ superseded = {}
    /\ accepted = [c \in Challenges |-> 0]
    /\ verifiedResp = [e \in Emails |-> {}]
    /\ calls = 0

\* history kept by every begin_*: the overwritten pending challenge is
\* superseded, the handlers of that identity still at their await have seen a
\* begin, and the identity's verified responses are no longer the latest.
NoteBegin(email, kind) ==
    /\ issued' = Append(issued, [email |-> email, kind |-> kind])
    /\ superseded' = IF PendingOf(email) = 0 THEN superseded
                     ELSE superseded \cup {PendingOf(email)}
    /\ verifiedResp' = [verifiedResp EXCEPT ![email] = {}]
    /\ UNCHANGED <<expiredUpTo, accepted>>

MarkBegun(hs, email) ==
    [s \in 1..Len(hs) |-> IF hs[s].email = email /\ hs[s].verification.kind = "verified"
                     THEN [hs[s] EXCEPT !.notes = @ \cup {"begun"}]
                     ELSE hs[s]]

History == <<issued, expiredUpTo, superseded, accepted, verifiedResp>>

\* --------------------------------------- POST /generate-registration-options
\* (mutation) every server keeps the record of a known email
StoreRegistrationChallengeKeeping(email, challenge) ==
    IF users[email] = 0
    THEN /\ users' = [users EXCEPT ![email] = challenge]
         /\ heap' = Collect([heap EXCEPT ![challenge] = NewUser(challenge)],
                            users', handlers')
    ELSE /\ users' = users
         /\ heap' = [heap EXCEPT ![users[email]] = SetCurrentChallenge(@, challenge)]

\* (mutation) one record for every email
StoreRegistrationChallengeForAll(email, challenge) ==
    /\ users' = [e \in Emails |-> challenge]
    /\ heap' = Collect([heap EXCEPT ![challenge] = NewUser(challenge)], users', handlers')

\* "replace", "awaiting": users.set(email, {..., devices: [], currentChallenge})
\* always.
\* "preserve": the same for a new email, else only currentChallenge is set.
StoreRegistrationChallenge(email, challenge) ==
    IF variant # "preserve" \/ users[email] = 0
    THEN /\ users' = [users EXCEPT ![email] = challenge]
         /\ heap' = Collect([heap EXCEPT ![challenge] = NewUser(challenge)],
                            users', handlers')
    ELSE /\ users' = users
         /\ heap' = [heap EXCEPT ![users[email]] = SetCurrentChallenge(@, challenge)]

\* excludeCredentials of the registration options.  "preserve":
\* users.has(email) ? users.get(email).devices.map(...) : [].  "replace",
\* "awaiting": the option is not passed, the library lists nothing.
ExcludeCredentials(email) ==
    IF variant = "preserve" /\ users[email] # 0
    THEN DeviceIds(heap[users[email]].devices)
    ELSE <<>>

GenerateRegistrationOptions(email) ==
    IF email = NoEmail
    THEN /\ last' = SendError("generate-registration-options", email, 400,
                              IF variant # "preserve" THEN "Email requerido"
                              ELSE "Email valido es requerido", {})
         /\ UNCHANGED <<variant, users, heap, handlers, History, calls>>
    ELSE /\ Len(issued) < MaxChallenges
         /\ LET challenge == Len(issued) + 1
            IN  /\ handlers' = MarkBegun(handlers, email)
                /\ StoreRegistrationChallenge(email, challenge)
                /\ last' = WithUserID(
                               Listing(Reply("generate-registration-options", email, 200,
                                             "options",
                                             IF PendingOf(email) = 0 THEN {}
                                             ELSE {"supersedes"}),
                                       ExcludeCredentials(email)),
                               UserId(challenge))
         /\ NoteBegin(email, "registration")
         /\ UNCHANGED <<variant, calls>>

\* ------------------------------------- POST /generate-authentication-options
\* "replace" has no such route: Express answers 404 itself, whatever the body.
\* "preserve" answers in one step.  "awaiting" reads the record, then awaits
\* generateAuthenticationOptions; it has no check of the email, and
\* users.get(undefined) is undefined.
SuspendOptions(email) ==
    /\ Len(handlers) < MaxInFlight
    /\ Len(issued) < MaxChallenges
    /\ handlers' = Append(MarkBegun(handlers, email),
                       [op |-> "generate-authentication-options", email |-> email,
                        user |-> users[email], device |-> 0, expectedChallenge |-> 0,
                        verification |-> [kind |-> "options"],
                        response |-> NoResponse, notes |-> {},
                        \* allowCredentials, built before the await
                        list |-> DeviceIds(UsersGet(email).devices)])
    /\ last' = Reply("generate-authentication-options", email, 0, "await", {})
    /\ verifiedResp' = [verifiedResp EXCEPT ![email] = {}]
    /\ UNCHANGED <<variant, users, heap, issued, expiredUpTo, superseded, accepted, calls>>

GenerateAuthenticationOptions(email) ==
    IF variant = "replace"
    THEN /\ last' = SendError("generate-authentication-options", NoEmail, 404,
                              "Cannot POST", {})
         /\ UNCHANGED <<variant, users, heap, handlers, History, calls>>
    ELSE IF variant = "preserve" /\ email = NoEmail
    THEN /\ last' = SendError("generate-authentication-options", email, 400,
                              "Email requerido", {})
         /\ UNCHANGED <<variant, users, heap, handlers, History, calls>>
    ELSE IF variant = "awaiting" /\ (email = NoEmail \/ UsersGet(email) = NoRecord)
    THEN /\ last' = SendError("generate-authentication-options", email, 404,
                              "Usuario no registrado", {})
         /\ UNCHANGED <<variant, users, heap, handlers, History, calls>>
    ELSE IF variant = "awaiting" /\ Len(UsersGet(email).devices) = 0
    THEN /\ last' = SendError("generate-authentication-options", email, 404,
                              "Usuario no tiene dispositivos registrados", {})
         /\ UNCHANGED <<variant, users, heap, handlers, History, calls>>
    ELSE IF variant = "awaiting"
    THEN SuspendOptions(email)
    ELSE IF UsersGet(email) = NoRecord \/ Len(UsersGet(email).devices) = 0
    THEN /\ last' = SendError("generate-authentication-options", email, 404,
                              "Usuario no registrado", {})
         /\ UNCHANGED <<variant, users, heap, handlers, History, calls>>
    ELSE /\ Len(issued) < MaxChallenges
         /\ LET challenge == Len(issued) + 1
            IN  /\ handlers' = MarkBegun(handlers, email)
                /\ heap' = [heap EXCEPT ![users[email]] = SetCurrentChallenge(@, challenge)]
                /\ last' = Listing(Reply("generate-authentication-options", email, 200,
                                         "options",
                                         IF PendingOf(email) = 0 THEN {}
                                         ELSE {"supersedes"}),
                                   DeviceIds(UsersGet(email).devices))
         /\ NoteBegin(email, "authentication")
         /\ UNCHANGED <<variant, users, calls>>

\* "awaiting", after the await: user.currentChallenge = options.challenge on
\* the record read before it
AuthenticationOptionsGenerated(s) ==
    LET h == handlers[s]
        challenge == Len(issued) + 1
    IN  /\ h.op = "generate-authentication-options"
        /\ handlers' = MarkBegun([i \in 1..(Len(handlers) - 1) |->
                                     IF i < s THEN handlers[i] ELSE handlers[i + 1]],
                                 h.email)
        /\ heap' = Collect([heap EXCEPT ![h.user] = SetCurrentChallenge(@, challenge)],
                           users, handlers')
        /\ last' = Listing(Reply("generate-authentication-options", h.email, 200,
                                 "options",
                                 IF heap[h.user].currentChallenge = 0 THEN {}
                                 ELSE {"supersedes"}),
                           h.list)
        /\ issued' = Append(issued, [email |-> h.email, kind |-> "authentication"])
        /\ superseded' = IF heap[h.user].currentChallenge = 0 THEN superseded
                         ELSE superseded \cup {heap[h.user].currentChallenge}
        /\ verifiedResp' = [verifiedResp EXCEPT ![h.email] = {}]
        /\ UNCHANGED <<variant, users, expiredUpTo, accepted, calls>>

\* ---------------------------------------------------- verify-*: up to await
\* what the history says of a verify-* call at the moment it reads the challenge
StartNotes(kind, email, response, expectedChallenge) ==
    (IF response.challenge \in superseded THEN {"stale"} ELSE {})
    \cup (IF response \in verifiedResp[email] THEN {"replay"} ELSE {})
    \cup (IF expectedChallenge <= expiredUpTo THEN {"late"} ELSE {})
    \cup (IF response.id \in StoredIds THEN {"dup"} ELSE {})
    \cup (IF response.challenge <= Len(issued) /\ issued[response.challenge].email # email
          THEN {"foreign"} ELSE {})
    \cup (IF kind = "authentication"
             /\ LET d == FindDevice(UsersGet(email).devices, response.id)
                IN  /\ UsersGet(email).devices[d].counter > 0
                    /\ response.counter > UsersGet(email).devices[d].counter
          THEN {"advance"} ELSE {})

\* notes of a call that returns before it reads a challenge
EarlyNotes(email, response) ==
    IF email = NoEmail \/ response = NoResponse THEN {}
    ELSE (IF response.challenge \in superseded THEN {"stale"} ELSE {})
         \cup (IF response \in verifiedResp[email] THEN {"replay"} ELSE {})
         \cup (IF response.challenge <= Len(issued)
                  /\ issued[response.challenge].email # email
               THEN {"foreign"} ELSE {})
         \cup (IF response.origin # ExpectedOrigin
                  /\ response.challenge = PendingOf(email)
               THEN {"originOnly"} ELSE {})
         \cup (IF response.ctype = "webauthn.get"
                  /\ response.id \in StoredIds
                  /\ ~Owns(email, response.id)
               THEN {"notOwned"} ELSE {})

Suspend(op, email, response, device, verification, notes) ==
    /\ verification.kind # "throwNow"
    /\ Len(handlers) < MaxInFlight
    /\ handlers' = Append(handlers,
                       [op |-> op, email |-> email,
                        \* user and device are read again only when verified
                        user |-> IF verification.kind = "verified" THEN users[email] ELSE 0,
                        device |-> IF verification.kind = "verified" THEN device ELSE 0,
                        expectedChallenge |-> UsersGet(email).currentChallenge,
                        verification |-> verification,
                        response |-> IF verification.kind = "verified" THEN response
                                     ELSE NoResponse,
                        notes |-> IF verification.kind = "verified" THEN notes ELSE {},
                        list |-> <<>>])
    /\ last' = Having(Reply(op, email, 0, "await", EarlyNotes(email, response)),
                      UsersGet(email).currentChallenge)

VerifyRegistration(email, response) ==
    LET op == "verify-registration"
        user == UsersGet(email)
    IN  /\ calls < MaxCalls
        /\ calls' = calls + 1
        /\ UNCHANGED <<variant, users, heap, History>>
        /\ IF email = NoEmail \/ response = NoResponse
           THEN /\ last' = SendError(op, email, 400, "Faltan datos", {})
                /\ UNCHANGED handlers
           ELSE IF user = NoRecord
           THEN /\ last' = SendError(op, email, 404, "Usuario no encontrado",
                                     EarlyNotes(email, response))
                /\ UNCHANGED handlers
           ELSE IF user.currentChallenge = 0
           THEN /\ last' = SendError(op, email, 400, "No hay desafio",
                                     EarlyNotes(email, response))
                /\ UNCHANGED handlers
           ELSE LET verification ==
                        VerifyRegistrationResponse(response, user.currentChallenge)
                    notes == StartNotes("registration", email, response,
                                        user.currentChallenge)
                IN  \/ Suspend(op, email, response, 0, verification, notes)
                    \/ /\ verification.kind = "throwNow"
                       /\ last' = Having(SendError(op, email, 500,
                                             "Error al verificar registro",
                                             EarlyNotes(email, response)),
                                         user.currentChallenge)
                       /\ UNCHANGED handlers

\* (mutation) the credential is looked up before the pending challenge is read
VerifyAuthenticationDeviceFirst(email, response) ==
    LET op == "verify-authentication"
        user == UsersGet(email)
        device == FindDevice(user.devices, response.id)
    IN  /\ calls < MaxCalls
        /\ calls' = calls + 1
        /\ UNCHANGED <<variant, users, heap, History>>
        /\ IF email = NoEmail \/ response = NoResponse
           THEN /\ last' = SendError(op, email, 400, "Faltan datos", {})
                /\ UNCHANGED handlers
           ELSE IF user = NoRecord
           THEN /\ last' = SendError(op, email, 404, "Usuario no encontrado",
                                     EarlyNotes(email, response))
                /\ UNCHANGED handlers
           ELSE IF device = 0
           THEN /\ last' = Having(SendError(op, email, 400, "Dispositivo desconocido",
                                            EarlyNotes(email, response)),
                                  user.currentChallenge)
                /\ UNCHANGED handlers
           ELSE IF user.currentChallenge = 0
           THEN /\ last' = SendError(op, email, 400, "No hay desafio",
                                     EarlyNotes(email, response))
                /\ UNCHANGED handlers
           ELSE LET verification ==
                        VerifyAuthenticationResponse(response, user.currentChallenge,
                                                     user.devices[device])
                    notes == StartNotes("authentication", email, response,
                                        user.currentChallenge)
                IN  \/ Suspend(op, email, response, device, verification, notes)
                    \/ /\ verification.kind = "throwNow"
                       /\ last' = Having(SendError(op, email, 500,
                                             "Error al verificar autenticacion",
                                             EarlyNotes(email, response)),
                                         user.currentChallenge)
                       /\ UNCHANGED handlers

VerifyAuthentication(email, response) ==
    LET op == "verify-authentication"
        user == UsersGet(email)
        device == FindDevice(user.devices, response.id)
    IN  /\ calls < MaxCalls
        /\ calls' = calls + 1
        /\ UNCHANGED <<variant, users, heap, History>>
        /\ IF email = NoEmail \/ response = NoResponse
           THEN /\ last' = SendError(op, email, 400, "Faltan datos", {})
                /\ UNCHANGED handlers
           ELSE IF user = NoRecord
           THEN /\ last' = SendError(op, email, 404, "Usuario no encontrado",
                                     EarlyNotes(email, response))
                /\ UNCHANGED handlers
           ELSE IF user.currentChallenge = 0
           THEN /\ last' = SendError(op, email, 400, "No hay desafio",
                                     EarlyNotes(email, response))
                /\ UNCHANGED handlers
           ELSE IF device = 0
           THEN /\ last' = Having(SendError(op, email, 400, "Dispositivo desconocido",
                                            EarlyNotes(email, response)),
                                  user.currentChallenge)
                /\ UNCHANGED handlers
           ELSE LET verification ==
                        VerifyAuthenticationResponse(response, user.currentChallenge,
                                                     user.devices[device])
                    notes == StartNotes("authentication", email, response,
                                        user.currentChallenge)
                IN  \/ Suspend(op, email, response, device, verification, notes)
                    \/ /\ verification.kind = "throwNow"
                       /\ last' = Having(SendError(op, email, 500,
                                             "Error al verificar autenticacion",
                                             EarlyNotes(email, response)),
                                         user.currentChallenge)
                       /\ UNCHANGED handlers

\* ------------------------------------------------- verify-*: after the await
Resume(s, newHeap, status, msg, morenotes) ==
    LET h == handlers[s]
    IN  /\ handlers' = [i \in 1..(Len(handlers) - 1) |->
                            IF i < s THEN handlers[i] ELSE handlers[i + 1]]
        /\ heap' = Collect(newHeap, users, handlers')
        /\ last' = Having(Reply(h.op, h.email, status, msg, h.notes \cup morenotes),
                          h.expectedChallenge)
        /\ UNCHANGED <<variant, users, issued, expiredUpTo, superseded, calls>>

NoteVerified(h) ==
    /\ accepted' = [accepted EXCEPT ![h.expectedChallenge] = @ + 1]
    /\ verifiedResp' =
          IF h.op = "verify-registration" /\ "begun" \notin h.notes
          THEN [verifiedResp EXCEPT ![h.email] = @ \cup {h.response}]
          ELSE verifiedResp

RegistrationVerified(s) ==
    LET h == handlers[s]
    IN  /\ h.op = "verify-registration"
        /\ h.verification.kind = "verified"
        /\ Resume(s, [heap EXCEPT ![h.user] = DeleteCurrentChallenge(
                                   PushDevice(@, h.verification.registrationInfo))],
                  200, "verified", {})
        /\ NoteVerified(h)

\* (mutation) the failure branch resets the identity's devices
RegistrationNotVerifiedResetting(s) ==
    LET h == handlers[s]
    IN  /\ h.op = "verify-registration"
        /\ h.verification.kind = "notVerified"
        /\ Resume(s, [heap EXCEPT ![users[h.email]].devices = <<>>],
                  400, "Verificacion fallida", {})
        /\ UNCHANGED <<accepted, verifiedResp>>

RegistrationNotVerified(s) ==
    LET h == handlers[s]
    IN  /\ h.op = "verify-registration"
        /\ h.verification.kind = "notVerified"
        /\ Resume(s, heap, 400, "Verificacion fallida", {})
        /\ UNCHANGED <<accepted, verifiedResp>>

\* (mutation) the rejected promise is never handled: the catch does not run
RegistrationThrewUnhandled(s) ==
    /\ handlers[s].op = "verify-registration"
    /\ handlers[s].verification.kind = "throw"
    /\ FALSE
    /\ UNCHANGED vars

RegistrationThrew(s) ==
    LET h == handlers[s]
    IN  /\ h.op = "verify-registration"
        /\ h.verification.kind = "throw"
        /\ Resume(s, heap, 500, "Error al verificar registro", {})
        /\ UNCHANGED <<accepted, verifiedResp>>

AuthenticationVerified(s) ==
    LET h == handlers[s]
    IN  /\ h.op = "verify-authentication"
        /\ h.verification.kind = "verified"
        /\ Resume(s, [heap EXCEPT ![h.user] = DeleteCurrentChallenge(
                                   SetDeviceCounter(@, h.device,
                                       h.verification.authenticationInfo.newCounter))],
                  200, "verified", {})
        /\ NoteVerified(h)

\* (mutation) a verification that returned false is reported as a success
AuthenticationNotVerifiedSoftFail(s) ==
    LET h == handlers[s]
    IN  /\ h.op = "verify-authentication"
        /\ h.verification.kind = "notVerified"
        /\ Resume(s, heap, 200, "verified", {})
        /\ UNCHANGED <<accepted, verifiedResp>>

\* (mutation) the failure branch writes a counter all the same
AuthenticationNotVerifiedCounting(s) ==
    LET h == handlers[s]
    IN  /\ h.op = "verify-authentication"
        /\ h.verification.kind = "notVerified"
        /\ Resume(s, [heap EXCEPT ![users[h.email]] = SetDeviceCounter(@, 1, MaxCounter)],
                  400, "Autenticacion fallida", {})
        /\ UNCHANGED <<accepted, verifiedResp>>

AuthenticationNotVerified(s) ==
    LET h == handlers[s]
    IN  /\ h.op = "verify-authentication"
        /\ h.verification.kind = "notVerified"
        /\ Resume(s, heap, 400, "Autenticacion fallida", {})
        /\ UNCHANGED <<accepted, verifiedResp>>

AuthenticationThrew(s) ==
    LET h == handlers[s]
    IN  /\ h.op = "verify-authentication"
        /\ h.verification.kind = "throw"
        /\ Resume(s, heap, 500, "Error al verificar autenticacion", {})
        /\ UNCHANGED <<accepted, verifiedResp>>

\* ------------------------------------------------------------------ time
\* timeout: 60000 - the oldest challenges not yet timed out become older than it
TimeoutElapses ==
    /\ calls <= MaxCallsBeforeTimeout
    /\ \E c \in (expiredUpTo + 1)..Len(issued) : expiredUpTo' = c
    /\ last' = Reply("timeout", NoEmail, 0, "", {})
    /\ UNCHANGED <<variant, users, heap, handlers, issued, superseded, accepted,
                   verifiedResp, calls>>

\* ------------------------------------------------------------------ Next
\* The bodies posted to a verify-* route: a response of the route's own
\* ceremony; one response of the other ceremony per challenge; a body that
\* lacks the email, or the response.
OneOf(S) == CHOOSE r \in S : TRUE

Bodies(own, other) ==
    (Emails \X own)
    \cup (Emails \X {OneOf({r \in other : r.challenge = c /\ r.origin = ExpectedOrigin})
                        : c \in 1..MaxChallenges})
    \cup {<<NoEmail, OneOf(own)>>}
    \cup {<<e, NoResponse>> : e \in Emails}

RegistrationBodies == Bodies(AttestationResponses, AssertionResponses)
AuthenticationBodies == Bodies(AssertionResponses, AttestationResponses)

Next ==
    \/ \E email \in EmailInputs : GenerateRegistrationOptions(email)
    \/ \E email \in EmailInputs : GenerateAuthenticationOptions(email)
    \/ \E body \in RegistrationBodies : VerifyRegistration(body[1], body[2])
    \/ \E body \in AuthenticationBodies : VerifyAuthentication(body[1], body[2])
    \/ \E s \in 1..Len(handlers) : RegistrationVerified(s)
    \/ \E s \in 1..Len(handlers) : RegistrationNotVerified(s)
    \/ \E s \in 1..Len(handlers) : RegistrationThrew(s)
    \/ \E s \in 1..Len(handlers) : AuthenticationVerified(s)
    \/ \E s \in 1..Len(handlers) : AuthenticationNotVerified(s)
    \/ \E s \in 1..Len(handlers) : AuthenticationThrew(s)
    \/ \E s \in 1..Len(handlers) : AuthenticationOptionsGenerated(s)

Spec == Init /\ [][Next]_vars

\* the same server with the clock: challenges grow older than their timeout
NextTimed ==
    \/ Next
    \/ TimeoutElapses

SpecTimed == Init /\ [][NextTimed]_vars

\* the promise a handler awaits settles, and the handler runs to its end
AwaitSettles ==
    \E s \in 1..Len(handlers) :
        \/ RegistrationVerified(s)
        \/ RegistrationNotVerified(s)
        \/ RegistrationThrew(s)
        \/ AuthenticationVerified(s)
        \/ AuthenticationNotVerified(s)
        \/ AuthenticationThrew(s)
        \/ AuthenticationOptionsGenerated(s)

\* the same server, when every awaited library call returns or throws
SpecLive == Init /\ [][Next]_vars /\ WF_vars(AwaitSettles)

\* ================================================================ claims
IsVerify(op) == op \in {"verify-registration", "verify-authentication"}
Returned(reply) == IsVerify(reply.op) /\ reply.status # 0

\* every stored credential, as <<email, position>>
Stored == UNION {{<<e, i>> : i \in 1..Len(CredentialsOf(e))} : e \in Emails}

\* no devices list of any live object grows or changes in this step
NoCredentialStored ==
    \A r \in Challenges :
        (heap[r] # NoRecord /\ heap'[r] # NoRecord) => heap'[r].devices = heap[r].devices

\* C1 - Supersede: a successful begin_registration leaves exactly its own,
\* newly issued challenge pending for the identity, and a finish_registration
\* whose response is built on a challenge that a later begin_* overwrote does
\* not end Verified and stores no credential.
C1_Supersede ==
    [][ /\ \A e \in Emails :
              (last'.op = "generate-registration-options" /\ last'.status = 200
                  /\ last'.email = e) =>
                  /\ PendingOf(e)' = Len(issued')
                  /\ Len(issued') = Len(issued) + 1
                  /\ issued'[Len(issued')].email = e
        /\ (last'.op = "verify-registration" /\ "stale" \in last'.notes) =>
              /\ last'.status \in {400, 404, 500}
              /\ NoCredentialStored
      ]_vars

\* a response built on the first of two challenges was posted to
\* /verify-registration while the second was pending, and was turned down
C1_Witness ==
    /\ last.op = "verify-registration"
    /\ "stale" \in last.notes
    /\ last.status = 500
    /\ last.challenge = PendingOf(last.email)
    /\ last.challenge \notin superseded
    /\ \A c \in superseded : issued[c] = [email |-> last.email, kind |-> "registration"]
    /\ issued[last.challenge] = [email |-> last.email, kind |-> "registration"]

\* C2 - Consumption regardless of outcome: when a finish_* call that found a
\* pending challenge has returned, Verified or Rejected, that challenge is no
\* longer pending for the identity.
C2_ConsumedWhateverTheOutcome ==
    (Returned(last) /\ last.challenge # 0) => PendingOf(last.email) # last.challenge

\* C3 - Replay after success: a response that a finish_registration verified,
\* posted again for the same identity with no begin_* since the first call was
\* made, is answered 400 "No hay desafio" and no credential is stored.
C3_ReplayAfterSuccess ==
    [][ (last'.op = "verify-registration" /\ "replay" \in last'.notes) =>
            /\ last'.status = 400
            /\ last'.msg = "No hay desafio"
            /\ NoCredentialStored
      ]_vars

\* the verified response was posted again and turned down, its credential
\* being stored once
C3_Witness ==
    /\ last.op = "verify-registration"
    /\ "replay" \in last.notes
    /\ last.status = 400
    /\ Len(CredentialsOf(last.email)) = 1

\* C4 - One-time use under interleaving: an issued challenge lets at most one
\* finish_* call end Verified.
C4_OneTimeUse == \A c \in Challenges : accepted[c] <= 1

\* C5 - Kind binding: a finish_authentication ends Verified only on a
\* challenge issued by begin_authentication, a finish_registration only on one
\* issued by begin_registration.
C5_KindBinding ==
    (Returned(last) /\ last.status = 200) =>
        issued[last.challenge].kind =
            (IF last.op = "verify-registration" THEN "registration" ELSE "authentication")

\* C6 - Expiry: no finish_* call made after its pending challenge timed out
\* ends Verified.
C6_NoAcceptanceAfterExpiry ==
    (Returned(last) /\ last.status = 200) => "late" \notin last.notes

\* C7 - begin_registration does not touch the Credential Store: the
\* credentials of every identity are the same before and after the call.
C7_BeginRegistrationKeepsCredentials ==
    [][ last'.op = "generate-registration-options" =>
            \A e \in Emails : CredentialsOf(e)' = CredentialsOf(e) ]_vars

\* C8 - Credential permanence: a stored credential stays stored for its
\* identity with the same credential_id and public_key, and its counter
\* changes only through a finish_authentication that ends Verified.
C8_CredentialPermanence ==
    [][ \A e \in Emails : \A i \in 1..Len(CredentialsOf(e)) :
            /\ i <= Len(CredentialsOf(e)')
            /\ CredentialsOf(e)'[i].credentialID = CredentialsOf(e)[i].credentialID
            /\ CredentialsOf(e)'[i].credentialPublicKey = CredentialsOf(e)[i].credentialPublicKey
            /\ CredentialsOf(e)'[i].counter # CredentialsOf(e)[i].counter =>
                  (last'.op = "verify-authentication" /\ last'.status = 200)
      ]_vars

\* C9 - Successful registration outcome: a finish_registration that ends
\* Verified adds exactly one credential to the named identity, and its
\* credential_id was not stored anywhere before the call.
C9_VerifiedRegistrationAddsOneNew ==
    [][ \A e \in Emails :
            (last'.op = "verify-registration" /\ last'.status = 200 /\ last'.email = e) =>
                /\ Len(CredentialsOf(e)') = Len(CredentialsOf(e)) + 1
                /\ \A i \in 1..Len(CredentialsOf(e)) : CredentialsOf(e)'[i] = CredentialsOf(e)[i]
                /\ "dup" \notin last'.notes
      ]_vars

\* C10 - Global credential-id uniqueness: no two stored credentials, within
\* one identity or across identities, share a credential_id.
C10_GlobalCredentialIdUniqueness ==
    \A x, y \in Stored :
        x # y => CredentialsOf(x[1])[x[2]].credentialID # CredentialsOf(y[1])[y[2]].credentialID

\* the credentials of every identity, and every devices list, are as before
CredentialsUnchanged ==
    /\ \A e \in Emails : CredentialsOf(e)' = CredentialsOf(e)
    /\ NoCredentialStored

\* C11 - Failed registration persists nothing: a step of a finish_registration
\* that does not end Verified (it returns 400, 404 or 500, or is suspended at
\* its await) leaves the credentials of every identity exactly as they were.
C11_FailedRegistrationPersistsNothing ==
    [][ (last'.op = "verify-registration" /\ last'.status # 200) =>
            CredentialsUnchanged ]_vars

\* a finish_registration was turned down by the verifier while an identity
\* held a stored credential
C11_Witness ==
    /\ last.op = "verify-registration"
    /\ last.status = 400
    /\ last.msg = "Verificacion fallida"
    /\ Len(CredentialsOf(last.email)) > 0

\* C12 - Failed authentication never changes a counter: a step of a
\* finish_authentication that does not end Verified (it returns 400, 404 or
\* 500, or is suspended at its await) leaves every stored credential, its
\* counter included, as it was.
C12_FailedAuthenticationKeepsCounters ==
    [][ (last'.op = "verify-authentication" /\ last'.status # 200) =>
            CredentialsUnchanged ]_vars

\* a finish_authentication for a stored credential was turned down by the
\* verifier (a signature by the wrong key)
C12_Witness ==
    /\ last.op = "verify-authentication"
    /\ last.status = 400
    /\ last.msg = "Autenticacion fallida"
    /\ Len(CredentialsOf(last.email)) > 0

\* the handler a verify-* step has just suspended
Suspended == handlers'[Len(handlers')]

\* the step is POST /verify-authentication {email, response} reaching the
\* verifier with the stored credential `device` of the identity
ReachesVerifier(email, response) ==
    /\ last'.op = "verify-authentication"
    /\ email # NoEmail /\ email = last'.email /\ response # NoResponse
    /\ UsersGet(email) # NoRecord
    /\ UsersGet(email).currentChallenge # 0
    /\ FindDevice(UsersGet(email).devices, response.id) # 0
    /\ VerifyAuthentication(email, response)

StoredDevice(email, response) ==
    UsersGet(email).devices[FindDevice(UsersGet(email).devices, response.id)]

PassesOtherChecks(email, response) ==
    /\ response.ctype = "webauthn.get"
    /\ response.challenge = UsersGet(email).currentChallenge
    /\ response.origin = ExpectedOrigin
    /\ response.key = StoredDevice(email, response).credentialPublicKey

\* C13 - Counter guard per call: for a credential whose stored counter, read
\* when the call reaches the verifier, is N > 0, a finish_authentication with
\* a response counter M <= N is rejected (it answers 500, at once or after its
\* await) and writes no counter; one with M > N that passes every other check
\* ends Verified and the stored counter becomes M.
C13_CounterGuardPerCall ==
    [][ /\ \A body \in AuthenticationBodies :
              (ReachesVerifier(body[1], body[2])
                  /\ StoredDevice(body[1], body[2]).counter > 0) =>
                  IF body[2].counter <= StoredDevice(body[1], body[2]).counter
                  THEN /\ CredentialsUnchanged
                       /\ \/ last'.status = 500
                          \/ /\ last'.status = 0
                             /\ Suspended.verification.kind = "throw"
                  ELSE PassesOtherChecks(body[1], body[2]) =>
                          /\ last'.status = 0
                          /\ Suspended.verification.kind = "verified"
                          /\ Suspended.verification.authenticationInfo.newCounter
                                = body[2].counter
        /\ \A s \in 1..Len(handlers) :
              /\ (Len(handlers') < Len(handlers) /\ AuthenticationThrew(s)) =>
                    (last'.status = 500 /\ CredentialsUnchanged)
              /\ (Len(handlers') < Len(handlers) /\ AuthenticationVerified(s)) =>
                    /\ last'.status = 200
                    /\ heap'[handlers[s].user].devices[handlers[s].device].counter
                          = handlers[s].response.counter
        /\ (last'.op = "verify-authentication" /\ last'.status = 200) =>
              \E s \in 1..Len(handlers) :
                  /\ handlers[s].verification.kind = "verified"
                  /\ AuthenticationVerified(s)
      ]_vars

\* a finish_authentication with a counter above a stored counter N > 0 has
\* ended Verified and the stored counter is the reported one
C13_Witness ==
    /\ last.op = "verify-authentication"
    /\ last.status = 200
    /\ "advance" \in last.notes
    /\ \E i \in 1..Len(CredentialsOf(last.email)) :
          CredentialsOf(last.email)[i].counter > 1

\* a finish_authentication whose counter does not exceed the stored N > 0 has
\* been answered 500 by the catch
C13_WitnessRegress ==
    /\ last.op = "verify-authentication"
    /\ last.status = 500
    /\ last.msg = "Error al verificar autenticacion"
    /\ \E i \in 1..Len(CredentialsOf(last.email)) :
          CredentialsOf(last.email)[i].counter > 0

\* C14 - Zero counter: a finish_authentication whose response reports counter
\* 0 and passes every other check is not rejected on account of its counter
\* (it reaches a verified verification), and when it ends Verified every
\* stored counter is the same after the call as before.
C14_ZeroCounterSkipsCloneCheck ==
    [][ /\ \A body \in AuthenticationBodies :
              (ReachesVerifier(body[1], body[2])
                  /\ body[2].counter = 0
                  /\ PassesOtherChecks(body[1], body[2])) =>
                  /\ last'.status = 0
                  /\ Suspended.verification.kind = "verified"
        /\ \A s \in 1..Len(handlers) :
              (/\ Len(handlers') < Len(handlers)
               /\ handlers[s].verification.kind = "verified"
               /\ handlers[s].response.counter = 0
               /\ AuthenticationVerified(s)) => CredentialsUnchanged
      ]_vars

\* C15 - Challenge bound to identity: a finish_* call ends Verified only on a
\* challenge issued to the identity it names, and a call whose response is
\* built on a challenge issued to another identity is rejected and changes no
\* credential.
C15_ChallengeBoundToIdentity ==
    [][ /\ (IsVerify(last'.op) /\ last'.status = 200) =>
              issued[last'.challenge].email = last'.email
        /\ (IsVerify(last'.op) /\ "foreign" \in last'.notes) =>
              /\ last'.status \in {400, 404, 500}
              /\ CredentialsUnchanged
      ]_vars

\* a response built on the pending challenge of another identity was posted
\* for an identity with a pending challenge of its own, and was rejected
C15_Witness ==
    /\ IsVerify(last.op)
    /\ "foreign" \in last.notes
    /\ last.status = 500
    /\ PendingOf(last.email) # 0
    /\ \E e \in Emails \ {last.email} : PendingOf(e) # 0

\* what each server answers a begin_authentication for an unknown email
UnknownIdentityMsg == IF variant = "replace" THEN "Cannot POST" ELSE "Usuario no registrado"

\* C16 - begin_authentication for an identity that is unknown, or known with
\* zero credentials, fails with 404, issues no challenge, changes no record,
\* and the error is the same in both cases.
C16_BeginAuthenticationUnknownIdentity ==
    [][ \A e \in Emails :
            (/\ last'.op = "generate-authentication-options"
             /\ (UsersGet(e) = NoRecord \/ Len(UsersGet(e).devices) = 0)
             /\ GenerateAuthenticationOptions(e)) =>
                /\ last'.status = 404
                /\ last'.msg = UnknownIdentityMsg
                /\ UNCHANGED <<users, heap, handlers, issued>>
      ]_vars

\* C17 - Credential ownership in authentication: a finish_authentication
\* whose response names a credential id that is not among the credentials
\* stored for the identity of the request (stored nowhere, or only under
\* another identity) is rejected with 400 or 404 and changes no credential or
\* counter; a call ends Verified only with the credential it found, by the id
\* of the response, in a record of that identity.
C17_CredentialOwnership ==
    [][ /\ (/\ last'.op = "verify-authentication"
            /\ ~(last'.status \in {400, 404} /\ CredentialsUnchanged)) =>
              \A body \in AuthenticationBodies :
                  (/\ body[1] # NoEmail /\ body[1] = last'.email /\ body[2] # NoResponse
                   /\ ~Owns(body[1], body[2].id)) =>
                      ~VerifyAuthentication(body[1], body[2])
        /\ \A s \in 1..Len(handlers) :
              (Len(handlers') < Len(handlers) /\ AuthenticationVerified(s)) =>
                  /\ issued[handlers[s].user].email = handlers[s].email
                  /\ handlers[s].device # 0
                  /\ heap[handlers[s].user].devices[handlers[s].device].credentialID
                        = handlers[s].response.id
        /\ (last'.op = "verify-authentication" /\ last'.status = 200) =>
              \E s \in 1..Len(handlers) :
                  Len(handlers') < Len(handlers) /\ AuthenticationVerified(s)
      ]_vars

\* a finish_authentication for an identity with a pending challenge named a
\* credential stored only under another identity, and was answered 400
C17_Witness ==
    /\ last.op = "verify-authentication"
    /\ "notOwned" \in last.notes
    /\ last.status = 400
    /\ last.msg = "Dispositivo desconocido"
    /\ PendingOf(last.email) # 0

\* C18 - No bypass of verification: a finish_authentication reports verified
\* only as the resumption of a handler that read a pending challenge of the
\* identity, found the named credential in its record and got verified from
\* the verifier, called with that challenge and the stored key and counter;
\* every other step of a finish_authentication leaves the records, counters
\* and pending challenges included, as they were.
C18_NoBypassOfVerification ==
    [][ /\ (last'.op = "verify-authentication" /\ last'.status = 200) =>
              \E s \in 1..Len(handlers) :
                  /\ Len(handlers') < Len(handlers) /\ AuthenticationVerified(s)
                  /\ handlers[s].verification.kind = "verified"
                  /\ handlers[s].expectedChallenge # 0
                  /\ issued[handlers[s].expectedChallenge].email = handlers[s].email
                  /\ handlers[s].response.challenge = handlers[s].expectedChallenge
                  /\ handlers[s].response.origin = ExpectedOrigin
                  /\ handlers[s].device # 0
                  /\ LET device == heap[handlers[s].user].devices[handlers[s].device]
                     IN  /\ device.credentialID = handlers[s].response.id
                         /\ device.credentialPublicKey = handlers[s].response.key
        /\ (last'.op = "verify-authentication" /\ last'.status = 0) =>
              \A body \in AuthenticationBodies :
                  ReachesVerifier(body[1], body[2]) =>
                      Suspended.verification =
                          VerifyAuthenticationResponse(body[2],
                              UsersGet(body[1]).currentChallenge,
                              StoredDevice(body[1], body[2]))
        /\ (last'.op = "verify-authentication" /\ last'.status # 200) =>
              UNCHANGED <<users, heap>>
      ]_vars

\* a finish_authentication has reported verified and cleared the challenge
C18_Witness ==
    /\ last.op = "verify-authentication"
    /\ last.status = 200
    /\ last.msg = "verified"
    /\ accepted[last.challenge] >= 1
    /\ PendingOf(last.email) = 0

\* C19 - Origin binding: a finish_registration or finish_authentication whose
\* response carries an origin other than the expected one is rejected (400,
\* 404 or 500, never suspended towards a verified reply) and changes no
\* credential or counter, whatever else the response holds.
C19_OriginBinding ==
    [][ (IsVerify(last'.op)
            /\ ~(last'.status \in {400, 404, 500} /\ CredentialsUnchanged)) =>
            /\ \A body \in RegistrationBodies :
                  (body[2] # NoResponse /\ body[2].origin # ExpectedOrigin) =>
                      ~VerifyRegistration(body[1], body[2])
            /\ \A body \in AuthenticationBodies :
                  (body[2] # NoResponse /\ body[2].origin # ExpectedOrigin) =>
                      ~VerifyAuthentication(body[1], body[2])
      ]_vars

\* a response from another origin, built on the identity's pending challenge
\* and otherwise valid, reached the verifier and the catch answered 500
C19_Witness ==
    /\ IsVerify(last.op)
    /\ "originOnly" \in last.notes
    /\ last.status = 500
    /\ last.challenge = PendingOf(last.email)

\* C20 - Counter never decreases on any trace: in every step, the counter of
\* every credential of every record that stays is at least what it was.
C20_CounterNeverDecreases ==
    [][ \A r \in Challenges :
            (heap[r] # NoRecord /\ heap'[r] # NoRecord) =>
                \A i \in 1..Len(heap[r].devices) :
                    heap'[r].devices[i].counter >= heap[r].devices[i].counter
      ]_vars

\* C21 - Clone scenario: of two finish_authentication calls whose responses
\* claim the same counter M for a credential stored at N > 0, N < M, at most
\* one ends Verified, in whatever order or interleaving they run: a call that
\* ends Verified finds the stored counter still below the one it reports.
C21_CloneScenario ==
    [][ \A s \in 1..Len(handlers) :
            (/\ Len(handlers') < Len(handlers)
             /\ handlers[s].verification.kind = "verified"
             /\ "advance" \in handlers[s].notes
             /\ AuthenticationVerified(s)) =>
                heap[handlers[s].user].devices[handlers[s].device].counter
                    < handlers[s].response.counter
      ]_vars

\* C22 - begin during an in-flight finish: when a finish_* call resumes after
\* a begin_* for its identity was made while it awaited the verifier, it
\* leaves the identity's pending challenge as that begin_* (or a later call)
\* left it, and the record it writes to is the one the store holds for the
\* identity.
C22_BeginDuringInFlightFinish ==
    [][ \A s \in 1..Len(handlers) : \A e \in Emails :
            (/\ Len(handlers') < Len(handlers)
             /\ handlers[s].email = e
             /\ handlers[s].verification.kind = "verified"
             /\ "begun" \in handlers[s].notes
             /\ (RegistrationVerified(s) \/ AuthenticationVerified(s))) =>
                /\ PendingOf(e)' = PendingOf(e)
                /\ handlers[s].user = users[e]
      ]_vars

\* C23 - Identity independence: a step of any begin_* or finish_* call made
\* for one identity, whether it succeeds or fails, leaves the pending
\* challenge and the credentials, counters included, of every other identity
\* as they were.
C23_IdentityIndependence ==
    [][ \A b \in Emails :
            last'.email # b =>
                /\ PendingOf(b)' = PendingOf(b)
                /\ CredentialsOf(b)' = CredentialsOf(b)
      ]_vars

\* a finish_* for one identity has ended Verified while another identity
\* holds a stored credential
C23_Witness ==
    /\ IsVerify(last.op)
    /\ last.status = 200
    /\ \E b \in Emails \ {last.email} : Len(CredentialsOf(b)) > 0

\* C24 - An identity has a record in the store only if some finish_* call on
\* a challenge issued to that identity has ended Verified: a
\* begin_registration alone, or a ceremony that ends Rejected, creates none.
C24_IdentityCreatedOnVerifiedRegistration ==
    \A e \in Emails :
        users[e] # 0 =>
            \E c \in 1..Len(issued) : issued[c].email = e /\ accepted[c] > 0

\* the step completes POST /generate-authentication-options for `email`
AuthenticationOptionsSent(email) ==
    /\ last'.op = "generate-authentication-options"
    /\ last'.status = 200
    /\ last'.email = email

\* C25 - begin_authentication for an identity with at least one credential
\* is not turned down where the route exists; when it returns its options,
\* the identity's pending challenge is the newly issued one, of kind
\* authentication, the allow-list holds exactly the credential ids stored for
\* the identity when the call was made, and no credential has changed.
C25_BeginAuthenticationOptions ==
    [][ \A e \in Emails :
            /\ (/\ last'.op = "generate-authentication-options"
                /\ variant # "replace"
                /\ Len(CredentialsOf(e)) > 0
                /\ GenerateAuthenticationOptions(e)) =>
                  /\ last'.status \in {0, 200}
                  /\ last'.status = 0 =>
                        Suspended.list = DeviceIds(CredentialsOf(e))
                  /\ last'.status = 200 =>
                        last'.list = DeviceIds(CredentialsOf(e))
                  /\ CredentialsUnchanged
            /\ AuthenticationOptionsSent(e) =>
                  /\ Len(issued') = Len(issued) + 1
                  /\ issued'[Len(issued')] = [email |-> e, kind |-> "authentication"]
                  /\ PendingOf(e)' = Len(issued')
                  /\ Len(last'.list) > 0
                  /\ CredentialsUnchanged
      ]_vars

\* C26 - begin_registration returns an exclude-list that holds exactly the
\* credential ids stored for the identity when the call is made: none for an
\* identity without credentials, one entry per stored credential otherwise.
C26_ExcludeListOfStoredCredentials ==
    [][ \A e \in Emails :
            (/\ last'.op = "generate-registration-options"
             /\ last'.status = 200
             /\ last'.email = e) =>
                last'.list = DeviceIds(CredentialsOf(e))
      ]_vars

\* the reply of a finish_* call that the verifier turned down, by answering
\* not verified or by throwing
FailedVerification(reply) ==
    /\ IsVerify(reply.op)
    /\ reply.challenge # 0
    /\ reply.status \in {400, 500}
    /\ reply.msg # "Dispositivo desconocido"

\* C27 - Undifferentiated cryptographic failure: two finish_* calls of the
\* same kind that fail cryptographic verification, one answered right after
\* the other, get the same status and the same body, whichever check failed
\* and whether the verifier answered not verified or threw.
C27_UndifferentiatedFailure ==
    [][ (/\ FailedVerification(last)
         /\ FailedVerification(last')
         /\ last'.op = last.op) =>
            /\ last'.status = last.status
            /\ last'.msg = last.msg
      ]_vars

\* what a finish_authentication can answer before it reaches the verifier
EarlyAnswers ==
    {400, 404} \X {"Faltan datos", "Usuario no encontrado", "No hay desafio",
                   "Dispositivo desconocido"}

\* POST /verify-authentication {email, response} can be answered with `answer`
CanAnswer(email, response, answer) ==
    ENABLED (/\ VerifyAuthentication(email, response)
             /\ last'.status = answer[1]
             /\ last'.msg = answer[2])

\* C28 - No user enumeration on the authentication path: in every state of
\* the store, a finish_authentication naming an unknown identity gets the
\* same status and message as one with the same response naming a known
\* identity that does not hold the credential.
C28_NoUserEnumeration ==
    \A e1, e2 \in Emails : \A r \in AssertionResponses :
        (/\ calls < MaxCalls
         /\ UsersGet(e1) = NoRecord
         /\ UsersGet(e2) # NoRecord
         /\ ~Owns(e2, r.id)) =>
            \A answer \in EarlyAnswers :
                CanAnswer(e1, r, answer) <=> CanAnswer(e2, r, answer)

\* the step serves a request that lacks the email, or the response
MalformedRequest ==
    \/ GenerateRegistrationOptions(NoEmail)
    \/ GenerateAuthenticationOptions(NoEmail)
    \/ \E body \in RegistrationBodies :
          /\ body[1] = NoEmail \/ body[2] = NoResponse
          /\ VerifyRegistration(body[1], body[2])
    \/ \E body \in AuthenticationBodies :
          /\ body[1] = NoEmail \/ body[2] = NoResponse
          /\ VerifyAuthentication(body[1], body[2])

\* C29 - Malformed input: a begin_* request without an identity, and a
\* finish_* request without an identity or without a response, is answered
\* with a 4xx status at once and changes no record, pending challenge,
\* credential or counter, and issues no challenge.
C29_MalformedInputRejected ==
    [][ ~(/\ last'.status \in 400..499
          /\ UNCHANGED <<users, heap, handlers, issued>>) => ~MalformedRequest
      ]_vars

\* a finish_* request without its email or response was answered 400 while
\* an identity held a credential and another a pending challenge
C29_Witness ==
    /\ IsVerify(last.op)
    /\ last.status = 400
    /\ last.msg = "Faltan datos"
    /\ \E e \in Emails : Len(CredentialsOf(e)) > 0
    /\ \E e \in Emails : PendingOf(e) # 0

\* the latest exchange is the result of a call that was suspended at its
\* await, and no call is left suspended
AllEnded ==
    /\ Len(handlers) = 0
    /\ last.op \in {"verify-registration", "verify-authentication",
                    "generate-authentication-options"}
    /\ last.status \in {200, 400, 500}

\* C30 - Termination: provided every awaited library call returns or throws,
\* the calls suspended at their await all end, each by sending its result
\* (200 when verified, 400 when not verified, 500 from the catch); the
\* branches that return before the await send their result in the step that
\* serves them.
C30_Termination == (Len(handlers) > 0) ~> AllEnded

\* every finish_* call the bound admits has been made, the last one to resume
\* was answered verified after its await, and no call is left suspended
C30_Witness ==
    /\ AllEnded
    /\ IsVerify(last.op)
    /\ last.status = 200
    /\ calls = MaxCalls

\* C31 - In src/backend/server.js every record with a pending challenge, in
\* the store or still held by a suspended handler, has an empty credential
\* list, in every reachable state; hence no /verify-authentication reaches a
\* verified verification or answers verified.
C31_PendingChallengeMeansNoCredential ==
    variant = "replace" =>
        /\ \A r \in Challenges :
              (heap[r] # NoRecord /\ heap[r].currentChallenge # 0) =>
                  Len(heap[r].devices) = 0
        /\ \A e \in Emails : PendingOf(e) # 0 => Len(CredentialsOf(e)) = 0
        /\ \A s \in 1..Len(handlers) : handlers[s].op # "verify-authentication"
        /\ ~(last.op = "verify-authentication" /\ last.status \in {0, 200})

\* in src/backend/server.js a /verify-authentication for an identity that
\* holds a credential was answered 400 "No hay desafio", while another
\* identity has a pending challenge and no credential
C31_Witness ==
    /\ variant = "replace"
    /\ last.op = "verify-authentication"
    /\ last.status = 400
    /\ last.msg = "No hay desafio"
    /\ Len(CredentialsOf(last.email)) > 0
    /\ \E e \in Emails : PendingOf(e) # 0 /\ Len(CredentialsOf(e)) = 0

\* the step serves a finish_* request, with an email and a response, for an
\* identity that has no record
FinishForUnknownIdentity ==
    \/ \E body \in RegistrationBodies :
          /\ body[1] # NoEmail /\ body[2] # NoResponse
          /\ body[1] = last'.email
          /\ users[body[1]] = 0
          /\ VerifyRegistration(body[1], body[2])
    \/ \E body \in AuthenticationBodies :
          /\ body[1] # NoEmail /\ body[2] # NoResponse
          /\ body[1] = last'.email
          /\ users[body[1]] = 0
          /\ VerifyAuthentication(body[1], body[2])

\* C32 - finish_registration and finish_authentication never create an
\* identity record: called for an identity without a record they answer 404
\* and leave the store as it was, no step of a finish_* adds or replaces a
\* key of the store, and a key is added only by a begin_registration that
\* returns its options.
C32_FinishNeverCreatesIdentity ==
    [][ /\ (/\ IsVerify(last'.op)
            /\ last'.email \in Emails
            /\ users[last'.email] = 0
            /\ ~(/\ last'.status = 404
                  /\ UNCHANGED <<users, heap, handlers, issued>>)) =>
                ~FinishForUnknownIdentity
        /\ IsVerify(last'.op) => UNCHANGED users
        /\ \A e \in Emails :
              (users[e] = 0 /\ users'[e] # 0) =>
                  /\ last'.op = "generate-registration-options"
                  /\ last'.status = 200
                  /\ last'.email = e
      ]_vars

\* a finish_* call for an identity without a record was answered 404 while
\* the store held the record of another identity
C32_Witness ==
    /\ IsVerify(last.op)
    /\ last.status = 404
    /\ last.msg = "Usuario no encontrado"
    /\ users[last.email] = 0
    /\ \E e \in Emails : users[e] # 0

\* ------------------------------------------------------------------- C33
\* what the checks of /verify-authentication, taken in the order missing
\* fields, unknown identity, no pending challenge, unknown credential, give
\* for this body in the state before the step
FirstFailingCheck(email, response) ==
    IF email = NoEmail \/ response = NoResponse THEN <<400, "Faltan datos">>
    ELSE IF users[email] = 0 THEN <<404, "Usuario no encontrado">>
    ELSE IF PendingOf(email) = 0 THEN <<400, "No hay desafio">>
    ELSE IF ~Owns(email, response.id) THEN <<400, "Dispositivo desconocido">>
    ELSE <<0, "verifier">>

\* the checks read two things of a response: whether it is there, and its id
ShapeOf(response) == IF response = NoResponse THEN NoResponse ELSE [id |-> response.id]
ResponseShapes == {NoResponse} \cup {[id |-> k] : k \in CredIds}

\* the step answers as the first failing check says and leaves the verifier
\* alone; with no failing check the verifier is invoked: the handler is
\* suspended at its await, or the verifier rejects at once and the catch
\* answers 500
DecidedByFirstFailingCheck(email, response) ==
    LET first == FirstFailingCheck(email, response)
    IN  IF first[2] # "verifier"
        THEN /\ last'.status = first[1]
             /\ last'.msg = first[2]
             /\ UNCHANGED <<users, heap, handlers>>
        ELSE \/ /\ last'.status = 0
                /\ Len(handlers') = Len(handlers) + 1
                /\ handlers'[Len(handlers')].op = "verify-authentication"
                /\ handlers'[Len(handlers')].expectedChallenge = PendingOf(email)
             \/ /\ last'.status = 500
                /\ UNCHANGED handlers

StoredUserId(email) == IF users[email] = 0 THEN 0 ELSE heap[users[email]].id

\* C34: in the record-preserving server the user id stored for an identity is
\* fixed when the record is created and no later begin_registration,
\* finish_* or begin_authentication changes it, although every
\* begin_registration draws a new user id for the options it returns.
C34_StoredUserIdIsFixed ==
    [][ variant = "preserve" =>
          /\ \A e \in Emails :
                users[e] # 0 => /\ users'[e] # 0
                                /\ heap'[users'[e]].id = heap[users[e]].id
          /\ \A e \in Emails :
                (users[e] = 0 /\ users'[e] # 0) =>
                    /\ last'.op = "generate-registration-options"
                    /\ last'.email = e
                    /\ heap'[users'[e]].id = last'.userID
          /\ (/\ last'.op = "generate-registration-options"
              /\ last'.status = 200
              /\ Len(issued') = Len(issued) + 1) =>
                    /\ last'.userID # 0
                    /\ \A e \in Emails : users[e] # 0 => last'.userID # heap[users[e]].id
      ]_vars

\* a later begin_registration of a known identity returned options with a new
\* user id and the record still holds the first one
C34_Witness ==
    /\ variant = "preserve"
    /\ last.op = "generate-registration-options"
    /\ last.status = 200
    /\ StoredUserId(last.email) # 0
    /\ StoredUserId(last.email) # last.userID
    /\ Len(CredentialsOf(last.email)) > 0

====
